---- MODULE Spec2Model ----
(***************************************************************************)
(* Cursor pagination utilities of src/utils/cursor-pagination.js:          *)
(* createContinuationToken, parseContinuationToken, orderByToSort and      *)
(* buildCursorWhere, together with the parts of the JavaScript runtime     *)
(* they call (JSON.stringify, JSON.parse, Buffer base64, Date,             *)
(* Object.keys/values).                                                    *)
(*                                                                         *)
(* A JavaScript string is the sequence of its character codes; every       *)
(* string of the model is ASCII, so the UTF-8 bytes of a string are the    *)
(* same sequence.                                                          *)
(***************************************************************************)
EXTENDS Integers, Sequences, FiniteSets, TLC

VARIABLES pc, orderBy, cursorData, sort, token, parsed, where

vars == <<pc, orderBy, cursorData, sort, token, parsed, where>>

(***************************************************************************)
(* Bounds of the model.                                                    *)
(***************************************************************************)
\* longest sort / orderBy sequence
MaxSortLen == 3

(***************************************************************************)
(* JavaScript values.                                                      *)
(***************************************************************************)
\* the character codes of the string literals the model uses
Chars(s) ==
  CASE s = "created_at" -> <<99, 114, 101, 97, 116, 101, 100, 95, 97, 116>>
    [] s = "id" -> <<105, 100>>
    [] s = "name" -> <<110, 97, 109, 101>>
    [] s = "data" -> <<100, 97, 116, 97>>
    [] s = "sort" -> <<115, 111, 114, 116>>
    [] s = "null" -> <<110, 117, 108, 108>>
    [] s = "true" -> <<116, 114, 117, 101>>
    [] s = "false" -> <<102, 97, 108, 115, 101>>
    [] s = "desc" -> <<100, 101, 115, 99>>
    [] s = "asc" -> <<97, 115, 99>>
    [] s = "abc" -> <<97, 98, 99>>
    [] s = "lt" -> <<108, 116>>
    [] s = "gt" -> <<103, 116>>
    [] s = "OR" -> <<79, 82>>
    [] s = "1970-01-01T00:00:00." -> <<49, 57, 55, 48, 45, 48, 49, 45, 48, 49, 84, 48, 48, 58, 48, 48, 58, 48, 48, 46>>
    [] s = "Z" -> <<90>>

Undefined == [t |-> "undefined"]
Null == [t |-> "null"]
Bool(b) == [t |-> "bool", b |-> b]
Num(n) == [t |-> "num", n |-> n]
\* a string, from its character codes
StrOf(cs) == [t |-> "str", s |-> cs]
Str(lit) == StrOf(Chars(lit))
\* a Date holding the time ms (milliseconds since the epoch)
DateOf(ms) == [t |-> "date", ms |-> ms]
\* new Date(NaN)
InvalidDate == [t |-> "invalid_date"]
\* a built-in function object (Array.prototype.sort)
Function == [t |-> "function"]
\* an object: its own enumerable properties in insertion order
Obj(kv) == [t |-> "obj", kv |-> kv]
Arr(el) == [t |-> "arr", el |-> el]
\* one property, its key a string literal
P(lit, v) == [k |-> Chars(lit), v |-> v]

\* ToBoolean
Truthy(v) ==
  CASE v.t \in {"undefined", "null"} -> FALSE
    [] v.t = "bool" -> v.b
    [] v.t = "num" -> v.n # 0
    [] v.t = "str" -> Len(v.s) > 0
    [] OTHER -> TRUE

\* typeof v
TypeOf(v) ==
  CASE v.t = "undefined" -> "undefined"
    [] v.t = "bool" -> "boolean"
    [] v.t = "num" -> "number"
    [] v.t = "str" -> "string"
    [] v.t = "function" -> "function"
    [] OTHER -> "object"

HasKey(kv, k) == \E i \in 1..Len(kv) : kv[i].k = k

\* kv with property k set to v: an existing key keeps its place
SetKey(kv, k, v) ==
  IF HasKey(kv, k)
    THEN [i \in 1..Len(kv) |-> IF kv[i].k = k THEN [k |-> k, v |-> v] ELSE kv[i]]
    ELSE Append(kv, [k |-> k, v |-> v])

\* o[k] for a non-nullish o and a field-name key k (no key of the model is a
\* property of a prototype other than the array's own "sort")
Get(o, k) ==
  CASE o.t = "obj" ->
         IF HasKey(o.kv, k)
           THEN o.kv[CHOOSE i \in 1..Len(o.kv) : o.kv[i].k = k].v
           ELSE Undefined
    [] o.t = "arr" /\ k = Chars("sort") -> Function
    [] OTHER -> Undefined

\* an object literal { [k1]: v1, [k2]: v2, ... }: a repeated key overwrites
RECURSIVE ObjectLiteral(_)
ObjectLiteral(props) ==
  IF props = <<>> THEN <<>>
  ELSE LET n == Len(props)
       IN  SetKey(ObjectLiteral(SubSeq(props, 1, n - 1)), props[n].k, props[n].v)

\* Object.keys(o) of an object
ObjectKeys(o) == [i \in 1..Len(o.kv) |-> StrOf(o.kv[i].k)]

\* Object.values(v), v not null or undefined
ObjectValues(v) ==
  CASE v.t = "obj" -> [i \in 1..Len(v.kv) |-> v.kv[i].v]
    [] v.t = "arr" -> v.el
    [] v.t = "str" -> [i \in 1..Len(v.s) |-> StrOf(<<v.s[i]>>)]
    [] OTHER -> <<>>

\* a[0]
First(a) == IF Len(a) > 0 THEN a[1] ELSE Undefined

(***************************************************************************)
(* Date: toISOString and the parse of new Date(string), for the times of   *)
(* the first second of the epoch.                                          *)
(***************************************************************************)
Digit(d) == 48 + d

IsDigit(c) == c >= 48 /\ c <= 57

IsoPrefix == Chars("1970-01-01T00:00:00.")

\* Date.prototype.toISOString, 0 <= ms < 1000
ToISOString(ms) ==
  IsoPrefix \o <<Digit(ms \div 100), Digit((ms \div 10) % 10), Digit(ms % 10)>> \o Chars("Z")

\* new Date(s) of a string s: the ISO form is read back, and a string that
\* holds no date (such as "abc" or "desc") gives an Invalid Date
NewDate(s) ==
  LET n == Len(IsoPrefix)
  IN  IF /\ Len(s) = n + 4
         /\ SubSeq(s, 1, n) = IsoPrefix
         /\ \A i \in (n + 1)..(n + 3) : IsDigit(s[i])
         /\ s[n + 4] = Chars("Z")[1]
        THEN DateOf((s[n + 1] - 48) * 100 + (s[n + 2] - 48) * 10 + (s[n + 3] - 48))
        ELSE InvalidDate

(***************************************************************************)
(* JSON.stringify                                                          *)
(***************************************************************************)
RECURSIVE Digits(_)
Digits(n) ==
  IF n < 0 THEN <<45>> \o Digits(-n)
  ELSE IF n < 10 THEN <<Digit(n)>>
  ELSE Digits(n \div 10) \o <<Digit(n % 10)>>

\* F(v), with v evaluated once, before F is
Let(v, F(_)) == CHOOSE y \in {F(x) : x \in {v}} : TRUE

\* a sequence given as a function, as a tuple
Tuple(f) == SubSeq(f, 1, Len(f))

\* the least element of a non-empty set of integers
Min(S) == CHOOSE x \in S : \A y \in S : x <= y

\* QuoteJSONString: '"' and '\' are escaped
RECURSIVE Escaped(_)
Escaped(cs) ==
  LET special == {i \in 1..Len(cs) : cs[i] \in {34, 92}}
  IN  IF special = {} THEN cs
      ELSE SubSeq(cs, 1, Min(special) - 1) \o <<92, cs[Min(special)]>>
           \o Escaped(SubSeq(cs, Min(special) + 1, Len(cs)))

Quote(cs) == <<34>> \o Escaped(cs) \o <<34>>

RECURSIVE Serialize(_)
RECURSIVE SerializeMembers(_, _)
RECURSIVE SerializeElements(_)

\* the properties of an object, those holding undefined or a function left out
SerializeMembers(kv, first) ==
  IF kv = <<>> THEN <<>>
  ELSE IF Head(kv).v.t \in {"undefined", "function"}
    THEN SerializeMembers(Tail(kv), first)
    ELSE (IF first THEN <<>> ELSE <<44>>)
         \o Quote(Head(kv).k) \o <<58>> \o Serialize(Head(kv).v)
         \o SerializeMembers(Tail(kv), FALSE)

\* the elements of an array, undefined written as null
SerializeElements(el) ==
  IF el = <<>> THEN <<>>
  ELSE (IF Head(el).t \in {"undefined", "function"}
          THEN Chars("null") ELSE Serialize(Head(el)))
       \o (IF Len(el) > 1 THEN <<44>> ELSE <<>>)
       \o SerializeElements(Tail(el))

\* JSON.stringify(v) of a value other than undefined
Serialize(v) ==
  CASE v.t = "null" -> Chars("null")
    [] v.t = "bool" -> IF v.b THEN Chars("true") ELSE Chars("false")
    [] v.t = "num" -> Digits(v.n)
    [] v.t = "str" -> Quote(v.s)
    [] v.t = "date" -> Quote(ToISOString(v.ms))
    [] v.t = "invalid_date" -> Chars("null")
    [] v.t = "arr" -> <<91>> \o SerializeElements(v.el) \o <<93>>
    [] v.t = "obj" -> <<123>> \o SerializeMembers(v.kv, TRUE) \o <<125>>

JSONstringify(v) == Serialize(v)

(***************************************************************************)
(* Buffer: base64 text of bytes, and bytes of base64 text.                 *)
(***************************************************************************)
\* the character of a 6-bit value in the standard alphabet A-Z a-z 0-9 + /
Base64Char(x) ==
  IF x < 26 THEN 65 + x
  ELSE IF x < 52 THEN 97 + (x - 26)
  ELSE IF x < 62 THEN 48 + (x - 52)
  ELSE IF x = 62 THEN 43
  ELSE 47

\* Buffer.from(string): the UTF-8 bytes of an ASCII string
Utf8Bytes(cs) == cs

\* buffer.toString('base64'): three bytes to four characters, '=' padding
ToBase64(bytes) ==
  LET Chars4(b) ==
        LET n == Len(b)
            \* the byte at position i, 0 past the end
            byte(i) == IF i <= n THEN b[i] ELSE 0
            \* character j (0..3) of the group that starts at byte g
            char(g, j) ==
              CASE j = 0 -> Base64Char(byte(g) \div 4)
                [] j = 1 -> Base64Char((byte(g) % 4) * 16 + byte(g + 1) \div 16)
                [] j = 2 -> IF g + 1 > n THEN 61
                            ELSE Base64Char((byte(g + 1) % 16) * 4 + byte(g + 2) \div 64)
                [] j = 3 -> IF g + 2 > n THEN 61 ELSE Base64Char(byte(g + 2) % 64)
        IN  Tuple([i \in 1..(4 * ((n + 2) \div 3)) |->
                     char(3 * ((i - 1) \div 4) + 1, (i - 1) % 4)])
  IN  Let(bytes, Chars4)

\* the 6-bit value of a character, -1 for a character of neither the standard
\* nor the URL-safe alphabet
Unbase64(c) ==
  IF c >= 65 /\ c <= 90 THEN c - 65
  ELSE IF c >= 97 /\ c <= 122 THEN c - 97 + 26
  ELSE IF IsDigit(c) THEN c - 48 + 52
  ELSE IF c \in {43, 45} THEN 62
  ELSE IF c \in {47, 95} THEN 63
  ELSE -1

\* the 6-bit values of a text: decoding stops at '=', and skips every other
\* character that is not of the alphabet
Sextets(cs) ==
  LET pads == {i \in 1..Len(cs) : cs[i] = 61}
      upto == IF pads = {} THEN Len(cs) ELSE Min(pads) - 1
      Values(legal) == Tuple([i \in 1..Len(legal) |-> Unbase64(legal[i])])
  IN  Let(SelectSeq(SubSeq(cs, 1, upto), LAMBDA c : Unbase64(c) >= 0), Values)

\* four 6-bit values to three bytes; two give one byte, three give two
SextetBytes(sextets) ==
  LET Bytes3(x) ==
        LET n == Len(x)
            full == n \div 4
            tail == IF n % 4 = 0 THEN 0 ELSE (n % 4) - 1
            \* byte j (0..2) of the group that starts at value g
            byte(g, j) ==
              CASE j = 0 -> x[g] * 4 + x[g + 1] \div 16
                [] j = 1 -> (x[g + 1] % 16) * 16 + x[g + 2] \div 4
                [] j = 2 -> (x[g + 2] % 4) * 64 + x[g + 3]
        IN  Tuple([i \in 1..(3 * full + tail) |->
                     byte(4 * ((i - 1) \div 3) + 1, (i - 1) % 3)])
  IN  Let(sextets, Bytes3)

\* Buffer.from(string, 'base64'): never throws
FromBase64(cs) == SextetBytes(Let(cs, Sextets))

\* buffer.toString('utf8'): a byte that is not ASCII reads as U+FFFD
Utf8ToString(bytes) ==
  LET Decoded(b) == Tuple([i \in 1..Len(b) |-> IF b[i] < 128 THEN b[i] ELSE 65533])
  IN  Let(bytes, Decoded)

(***************************************************************************)
(* JSON.parse: a recursive-descent reader of null, true, false, integers,  *)
(* strings (escapes \" \\ \/), arrays and objects, with white space.       *)
(* A result is [ok |-> FALSE] (SyntaxError) or [ok, v, pos].               *)
(***************************************************************************)
SyntaxError == [ok |-> FALSE]
Parsed(v, pos) == [ok |-> TRUE, v |-> v, pos |-> pos]

\* the character at position i, -1 past the end
At(s, i) == IF i >= 1 /\ i <= Len(s) THEN s[i] ELSE -1

RECURSIVE SkipWs(_, _)
SkipWs(s, i) == IF At(s, i) \in {32, 9, 10, 13} THEN SkipWs(s, i + 1) ELSE i

Matches(s, i, lit) ==
  /\ i + Len(lit) - 1 <= Len(s)
  /\ SubSeq(s, i, i + Len(lit) - 1) = lit

\* the characters of a string up to its closing quote; i is past the opening one
\* the first position from i on of a quote, a backslash or a control
\* character; past the end when there is none
StringStop(s, i) ==
  LET Least(stops) == IF stops = {} THEN Len(s) + 1 ELSE Min(stops)
  IN  Let({j \in i..Len(s) : s[j] \in {34, 92} \/ s[j] < 32}, Least)

\* the characters of a string up to its closing quote; i is past the opening one
RECURSIVE ParseChars(_, _, _)
ParseChars(s, i, acc) ==
  LET Run(j) ==
        IF At(s, j) = 34 THEN Parsed(StrOf(acc \o SubSeq(s, i, j - 1)), j + 1)
        ELSE IF At(s, j) = 92 /\ At(s, j + 1) \in {34, 92, 47}
          THEN ParseChars(s, j + 2, acc \o SubSeq(s, i, j - 1) \o <<At(s, j + 1)>>)
        ELSE SyntaxError
  IN  Let(StringStop(s, i), Run)

RECURSIVE ParseDigits(_, _, _)
ParseDigits(s, i, acc) ==
  IF IsDigit(At(s, i)) THEN ParseDigits(s, i + 1, acc * 10 + (At(s, i) - 48))
  ELSE Parsed(Num(acc), i)

\* an integer: 0, or a non-zero digit and more digits; no fraction or exponent
ParseNumber(s, i) ==
  LET NoFraction(r) ==
        IF r.ok /\ At(s, r.pos) \in {46, 69, 101} THEN SyntaxError ELSE r
  IN  Let(IF At(s, i) = 48 THEN Parsed(Num(0), i + 1)
          ELSE IF IsDigit(At(s, i)) THEN ParseDigits(s, i, 0)
          ELSE SyntaxError,
          NoFraction)

RECURSIVE ParseValue(_, _)
RECURSIVE ParseElements(_, _, _)
RECURSIVE ParseMembers(_, _, _)

\* the elements of an array after '[' or ','; i is at a value
ParseElements(s, i, acc) ==
  LET After(r) ==
        LET Sep(j) ==
              IF At(s, j) = 44
                THEN ParseElements(s, SkipWs(s, j + 1), Append(acc, r.v))
              ELSE IF At(s, j) = 93 THEN Parsed(Arr(Append(acc, r.v)), j + 1)
              ELSE SyntaxError
        IN  IF ~r.ok THEN SyntaxError ELSE Let(SkipWs(s, r.pos), Sep)
  IN  Let(ParseValue(s, i), After)

\* the members of an object after '{' or ','; i is at a key
ParseMembers(s, i, acc) ==
  LET AfterKey(k) ==
        LET AfterValue(r) ==
              LET Sep(j) ==
                    IF At(s, j) = 44
                      THEN ParseMembers(s, SkipWs(s, j + 1), SetKey(acc, k.v.s, r.v))
                    ELSE IF At(s, j) = 125
                      THEN Parsed(Obj(SetKey(acc, k.v.s, r.v)), j + 1)
                    ELSE SyntaxError
              IN  IF ~r.ok THEN SyntaxError ELSE Let(SkipWs(s, r.pos), Sep)
            Colon(c) ==
              IF At(s, c) = 58
                THEN Let(ParseValue(s, SkipWs(s, c + 1)), AfterValue)
                ELSE SyntaxError
        IN  IF ~k.ok THEN SyntaxError ELSE Let(SkipWs(s, k.pos), Colon)
  IN  Let(IF At(s, i) = 34 THEN ParseChars(s, i + 1, <<>>) ELSE SyntaxError, AfterKey)

ParseValue(s, pos) ==
  LET Value(i) ==
        LET c == At(s, i)
            Negated(r) == IF r.ok THEN Parsed(Num(-r.v.n), r.pos) ELSE SyntaxError
            Members(j) ==
              IF At(s, j) = 125 THEN Parsed(Obj(<<>>), j + 1)
              ELSE ParseMembers(s, j, <<>>)
            Elements(j) ==
              IF At(s, j) = 93 THEN Parsed(Arr(<<>>), j + 1)
              ELSE ParseElements(s, j, <<>>)
        IN  IF c = 123 THEN Let(SkipWs(s, i + 1), Members)
            ELSE IF c = 91 THEN Let(SkipWs(s, i + 1), Elements)
            ELSE IF c = 34 THEN ParseChars(s, i + 1, <<>>)
            ELSE IF c = 45 THEN Let(ParseNumber(s, i + 1), Negated)
            ELSE IF IsDigit(c) THEN ParseNumber(s, i)
            ELSE IF Matches(s, i, Chars("null")) THEN Parsed(Null, i + 4)
            ELSE IF Matches(s, i, Chars("true")) THEN Parsed(Bool(TRUE), i + 4)
            ELSE IF Matches(s, i, Chars("false")) THEN Parsed(Bool(FALSE), i + 5)
            ELSE SyntaxError
  IN  Let(pos, Value)

\* JSON.parse(text): one value and nothing after it
JSONparse(text) ==
  LET Document(s) ==
        LET Whole(r) ==
              IF r.ok /\ SkipWs(s, r.pos) = Len(s) + 1 THEN r ELSE SyntaxError
        IN  Let(ParseValue(s, SkipWs(s, 1)), Whole)
  IN  Let(text, Document)

(***************************************************************************)
(* The outcome of a call: a returned value or a thrown error.              *)
(***************************************************************************)
Return(v) == [kind |-> "return", v |-> v]
Throw(error, message) == [kind |-> "throw", error |-> error, message |-> message]
NotCalled == [kind |-> "none"]

\* the message of the BadRequestError of parseContinuationToken (a fixed
\* Korean sentence: "the cursor value is not valid")
InvalidCursorMessage == "invalid cursor value"

Nullish(v) == v.t \in {"undefined", "null"}

IsArray(v) == v.t = "arr"

\* ToPropertyKey of a string, a number or null
PropertyKey(v) ==
  CASE v.t = "str" -> v.s
    [] v.t = "num" -> Digits(v.n)
    [] OTHER -> Chars("null")

(***************************************************************************)
(* createContinuationToken(data, sort)                                     *)
(***************************************************************************)
\* a variant that also takes a marker with no property for an absent one
createContinuationToken_EmptyIsAbsent(data, sortArg) ==
  IF ~Truthy(data) \/ data = Obj(<<>>) \/ Len(sortArg.el) = 0 THEN Null
  ELSE StrOf(ToBase64(Utf8Bytes(JSONstringify(
         Obj(<<P("data", data), P("sort", sortArg)>>)))))

createContinuationToken(data, sortArg) ==
  IF ~Truthy(data) \/ Len(sortArg.el) = 0 THEN Null
  ELSE LET tokenPayload == Obj(<<P("data", data), P("sort", sortArg)>>)
           jsonString == JSONstringify(tokenPayload)
       IN  StrOf(ToBase64(Utf8Bytes(jsonString)))

(***************************************************************************)
(* parseContinuationToken(token)                                           *)
(***************************************************************************)
\* a variant that restores no Date
ParseChecked_NoDate(doc) ==
  LET data == Get(doc, Chars("data"))
  IN  IF \/ ~Truthy(doc)
         \/ TypeOf(data) # "object"
         \/ ~IsArray(Get(doc, Chars("sort")))
        THEN Throw("Error", "Invalid structure")
      ELSE IF Nullish(data)
        THEN Throw("TypeError", "Cannot read properties of null")
      ELSE Return(doc)

\* a variant that reads data?.created_at, which a null data does not fail
ParseChecked_OptionalChaining(doc) ==
  LET data == Get(doc, Chars("data"))
      created == IF Nullish(data) THEN Undefined ELSE Get(data, Chars("created_at"))
  IN  IF \/ ~Truthy(doc)
         \/ TypeOf(data) # "object"
         \/ ~IsArray(Get(doc, Chars("sort")))
        THEN Throw("Error", "Invalid structure")
      ELSE IF Truthy(created) /\ TypeOf(created) = "string"
        THEN Return(Obj(SetKey(doc.kv, Chars("data"),
               Obj(SetKey(data.kv, Chars("created_at"), NewDate(created.s))))))
      ELSE Return(doc)

\* lines 45-54: the parsed document is checked and its date restored
ParseChecked(doc) ==
  LET data == Get(doc, Chars("data"))
      created == Get(data, Chars("created_at"))
  IN  IF \/ ~Truthy(doc)
         \/ TypeOf(data) # "object"
         \/ ~IsArray(Get(doc, Chars("sort")))
        THEN Throw("Error", "Invalid structure")
      ELSE IF Nullish(data)
        THEN Throw("TypeError", "Cannot read properties of null")
      ELSE IF Truthy(created) /\ TypeOf(created) = "string"
        THEN Return(Obj(SetKey(doc.kv, Chars("data"),
               Obj(SetKey(data.kv, Chars("created_at"), NewDate(created.s))))))
      ELSE Return(doc)

\* the try block: what it returns, or the error it throws
ParseTry(tok) ==
  LET Checked(r) ==
        IF ~r.ok THEN Throw("SyntaxError", "Unexpected token")
        ELSE Let(r.v, ParseChecked)
      Read(jsonString) == Let(JSONparse(jsonString), Checked)
  IN  Let(Utf8ToString(FromBase64(tok.s)), Read)

\* a variant that converts the errors it expects and rethrows a TypeError
ParseCatch_Rethrow(e) ==
  IF e.error = "TypeError" THEN e
  ELSE Throw("BadRequestError", InvalidCursorMessage)

\* the catch block: every error of the try block becomes a BadRequestError
ParseCatch(e) == Throw("BadRequestError", InvalidCursorMessage)

parseContinuationToken(tok) ==
  LET Caught(r) == IF r.kind = "throw" THEN ParseCatch(r) ELSE r
  IN  IF ~Truthy(tok) THEN Return(Null)
      ELSE Let(ParseTry(tok), Caught)

(***************************************************************************)
(* orderByToSort(orderBy)                                                  *)
(***************************************************************************)
\* a variant that keeps the first occurrence of each field only
orderByToSort_Dedupe(ob) ==
  LET keys == [i \in 1..Len(ob.el) |-> First(ObjectKeys(ob.el[i]))]
      kept == SelectSeq([i \in 1..Len(ob.el) |-> i],
                        LAMBDA i : \A j \in 1..(i - 1) : keys[j] # keys[i])
  IN  Arr([n \in 1..Len(kept) |-> keys[kept[n]]])

orderByToSort(ob) == Arr([i \in 1..Len(ob.el) |-> First(ObjectKeys(ob.el[i]))])

(***************************************************************************)
(* buildCursorWhere(cursorData, sort)                                      *)
(***************************************************************************)
\* lines 88-117: sort is not empty
BuildWhereClause(data, sortArg) ==
  LET primaryField == PropertyKey(sortArg.el[1])
      primaryValue == Get(data, primaryField)
      primaryDirection ==
        IF First(ObjectValues(primaryValue)) = Str("desc") THEN "lt" ELSE "gt"
      whereClause ==
        Obj(ObjectLiteral(<<[k |-> primaryField,
                             v |-> Obj(<<P(primaryDirection, primaryValue)>>)]>>))
      secondaryField == PropertyKey(sortArg.el[2])
      secondaryDirection == primaryDirection
  IN  IF Nullish(data) \/ Nullish(primaryValue)
        THEN Throw("TypeError", "Cannot convert undefined or null to object")
      ELSE IF Len(sortArg.el) > 1
        THEN Return(Obj(<<P("OR", Arr(<<
               whereClause,
               Obj(ObjectLiteral(<<
                 [k |-> primaryField, v |-> primaryValue],
                 [k |-> secondaryField,
                  v |-> Obj(<<P(secondaryDirection, Get(data, secondaryField))>>)]>>))
             >>))>>))
      ELSE Return(whereClause)

\* a variant that reads the marker before it looks at the sort
buildCursorWhere_ReadFirst(data, sortArg) ==
  IF Nullish(data)
    THEN Throw("TypeError", "Cannot convert undefined or null to object")
  ELSE IF Len(sortArg.el) = 0 THEN Return(Obj(<<>>))
  ELSE BuildWhereClause(data, sortArg)

buildCursorWhere(data, sortArg) ==
  IF Len(sortArg.el) = 0 THEN Return(Obj(<<>>))
  ELSE BuildWhereClause(data, sortArg)

(***************************************************************************)
(* The inputs the callers supply.                                          *)
(***************************************************************************)
SeqsUpTo(S, n) == UNION {[1..k -> S] : k \in 0..n}

FieldNames == {"created_at", "id", "name"}

Fields == {Str(f) : f \in FieldNames}

\* sort arrays: field names, a name may repeat
Sorts == {Arr(s) : s \in SeqsUpTo(Fields, MaxSortLen)}

\* orderBy arrays: single-key objects { field: "asc" | "desc" }
OrderBys ==
  {Arr(s) : s \in SeqsUpTo({Obj(<<P(f, Str(d))>>) : f \in FieldNames, d \in {"asc", "desc"}},
                           MaxSortLen)}

\* a direction-tagged value { d: v }
Tagged(d, v) == Obj(<<P(d, v)>>)

\* the values a marker may hold for a field; Undefined stands for no property
ValuesOf(f) ==
  CASE f = "created_at" ->
         {Undefined, Null, DateOf(0), DateOf(123), Str("abc"), StrOf(<<>>),
          StrOf(ToISOString(123)),
          Tagged("desc", DateOf(0)), Tagged("asc", Str("desc"))}
    [] f = "id" ->
         {Undefined, Num(5), Num(7), Tagged("desc", Num(7)), Tagged("asc", Num(5))}
    [] f = "name" -> {Undefined, Str("abc"), DateOf(0)}

MarkerOf(c, i, n) ==
  Obj((IF c = Undefined THEN <<>> ELSE <<P("created_at", c)>>)
      \o (IF i = Undefined THEN <<>> ELSE <<P("id", i)>>)
      \o (IF n = Undefined THEN <<>> ELSE <<P("name", n)>>))

\* position markers: objects over the fields
Markers ==
  {MarkerOf(c, i, n) : c \in ValuesOf("created_at"), i \in ValuesOf("id"),
                       n \in ValuesOf("name")}

\* what a caller may pass as data / cursorData
MarkerArgs == Markers \cup {Null, Undefined}

\* the data members of the JSON documents a client may send
ClientData ==
  {Undefined, Null, Num(5), Str("abc"), Arr(<<>>), Arr(<<Num(5)>>), Obj(<<>>),
   MarkerOf(Undefined, Num(5), Undefined), MarkerOf(Undefined, Null, Undefined),
   MarkerOf(Str("abc"), Num(7), Undefined),
   MarkerOf(StrOf(ToISOString(123)), Undefined, Undefined),
   MarkerOf(Tagged("desc", Str("desc")), Tagged("desc", Num(7)), Str("abc"))}

\* the sort members of those documents
ClientSort ==
  {Undefined, Null, Str("id"), Obj(<<>>), Arr(<<Num(5)>>)} \cup Sorts

\* the JSON documents a client may send
ClientDocs ==
  {Null, Bool(TRUE), Bool(FALSE), Num(0), Num(5), Str("abc"), Arr(<<>>), Obj(<<>>)}
  \cup {Obj(<<P("data", d), P("sort", s)>>) : d \in ClientData, s \in ClientSort}

\* a text cut short: not JSON when the text is an object
Truncated(cs) == SubSeq(cs, 1, Len(cs) - 1)

\* the cursor strings a client may send: absent, well-formed documents,
\* truncated ones, and text that is not base64
ClientTokens ==
  {Undefined, Null, StrOf(<<>>), StrOf(<<33>>), Str("abc")}
  \cup {StrOf(ToBase64(Utf8Bytes(JSONstringify(d)))) : d \in ClientDocs}
  \cup {StrOf(ToBase64(Utf8Bytes(Truncated(JSONstringify(d))))) :
          d \in {x \in ClientDocs : x.t = "obj"}}
  \cup {StrOf(<<33>> \o ToBase64(Utf8Bytes(JSONstringify(d))) \o <<32>>) :
          d \in {x \in ClientDocs : x.t \in {"null", "arr"}}}

(***************************************************************************)
(* The calls.                                                              *)
(***************************************************************************)
Init ==
  /\ pc = "idle"
  /\ orderBy = Undefined
  /\ cursorData = Undefined
  /\ sort = Undefined
  /\ token = Undefined
  /\ parsed = NotCalled
  /\ where = NotCalled

\* the list route derives the sort fields of its orderBy
OrderByToSort ==
  /\ pc = "idle"
  /\ \E ob \in OrderBys :
       /\ orderBy' = ob
       /\ sort' = orderByToSort(ob)
  /\ pc' = "sorted"
  /\ UNCHANGED <<cursorData, token, parsed, where>>

\* the route makes the token of the next page from the last record
CreateContinuationToken ==
  /\ pc = "idle"
  /\ \E d \in MarkerArgs, s \in Sorts :
       /\ cursorData' = d
       /\ sort' = s
       /\ token' = createContinuationToken(d, s)
  /\ pc' = "issued"
  /\ UNCHANGED <<orderBy, parsed, where>>

\* a request arrives with a cursor the client chose
ReceiveToken ==
  /\ pc = "idle"
  /\ \E tok \in ClientTokens : token' = tok
  /\ pc' = "received"
  /\ UNCHANGED <<orderBy, cursorData, sort, parsed, where>>

\* the token in hand (issued before, or received) is parsed
ParseContinuationToken ==
  /\ pc \in {"issued", "received"}
  /\ parsed' = parseContinuationToken(token)
  /\ pc' = IF pc = "issued" THEN "reparsed" ELSE "parsed"
  /\ UNCHANGED <<orderBy, cursorData, sort, token, where>>

\* the where clause of a parsed cursor
BuildFromCursor ==
  /\ pc \in {"reparsed", "parsed"}
  /\ parsed.kind = "return"
  /\ parsed.v # Null
  /\ where' = buildCursorWhere(Get(parsed.v, Chars("data")), Get(parsed.v, Chars("sort")))
  /\ pc' = "filtered"
  /\ UNCHANGED <<orderBy, cursorData, sort, token, parsed>>

\* buildCursorWhere called with a marker and a sort of the caller
BuildCursorWhere ==
  /\ pc = "idle"
  /\ \E d \in MarkerArgs, s \in Sorts :
       /\ cursorData' = d
       /\ sort' = s
       /\ where' = buildCursorWhere(d, s)
  /\ pc' = "where"
  /\ UNCHANGED <<orderBy, token, parsed>>

Next ==
  \/ OrderByToSort
  \/ CreateContinuationToken
  \/ ReceiveToken
  \/ ParseContinuationToken
  \/ BuildFromCursor
  \/ BuildCursorWhere

Spec == Init /\ [][Next]_vars

(***************************************************************************)
(* Properties.                                                             *)
(***************************************************************************)
CreatedAt == Chars("created_at")

\* the marker has a property for every field of the sort
Covers(marker, sortArg) ==
  /\ marker.t = "obj"
  /\ \A i \in 1..Len(sortArg.el) : HasKey(marker.kv, sortArg.el[i].s)

\* a token was issued for a marker that covers a non-empty sort, and parsed
RoundTripped ==
  /\ pc = "reparsed"
  /\ sort.el # <<>>
  /\ Covers(cursorData, sort)

\* the value holds no Date, itself or in a property
RECURSIVE DateFree(_)
DateFree(v) ==
  /\ v.t # "date"
  /\ v.t = "obj" => \A i \in 1..Len(v.kv) : DateFree(v.kv[i].v)

\* the value with every Date in it written as its ISO-8601 string
RECURSIVE DatesAsStrings(_)
DatesAsStrings(v) ==
  CASE v.t = "date" -> StrOf(ToISOString(v.ms))
    [] v.t = "obj" ->
         Obj([i \in 1..Len(v.kv) |-> [k |-> v.kv[i].k, v |-> DatesAsStrings(v.kv[i].v)]])
    [] OTHER -> v

\* C1 as stated: decoding the token of (marker, sort) gives back sort and
\* marker, Dates compared as Dates
C1_RoundTripExact ==
  RoundTripped =>
    /\ parsed.kind = "return"
    /\ Get(parsed.v, Chars("sort")) = sort
    /\ Get(parsed.v, Chars("data")) = cursorData

\* C1 amended: decoding the token of (marker, sort) gives back sort, and a
\* marker with the same fields in the same order; a Date held at created_at,
\* and a value that holds no Date and is not a non-empty string at
\* created_at, come back as they were; a Date held anywhere else comes back
\* as its ISO-8601 string, and a non-empty string at created_at as a Date
C1_RoundTripAmended ==
  RoundTripped =>
    /\ parsed.kind = "return"
    /\ Get(parsed.v, Chars("sort")) = sort
    /\ LET back == Get(parsed.v, Chars("data"))
       IN  /\ back.t = "obj"
           /\ Len(back.kv) = Len(cursorData.kv)
           /\ \A i \in 1..Len(cursorData.kv) :
                LET k == cursorData.kv[i].k
                    v == cursorData.kv[i].v
                    w == back.kv[i].v
                IN  /\ back.kv[i].k = k
                    /\ (k = CreatedAt /\ v.t = "date") => w = v
                    /\ (k = CreatedAt /\ v.t = "str" /\ v.s # <<>>) =>
                         w.t \in {"date", "invalid_date"}
                    /\ (DateFree(v) /\ ~(k = CreatedAt /\ v.t = "str" /\ v.s # <<>>)) =>
                         w = v
                    /\ (~DateFree(v) /\ ~(k = CreatedAt /\ v.t = "date")) =>
                         w = DatesAsStrings(v) /\ w # v

\* a marker with a Date at created_at and a number at id came back equal
C1_Witness ==
  /\ RoundTripped
  /\ Len(sort.el) >= 2
  /\ Get(cursorData, CreatedAt).t = "date"
  /\ Get(cursorData, Chars("id")).t = "num"
  /\ parsed.kind = "return"
  /\ Get(parsed.v, Chars("data")) = cursorData

\* C2: createContinuationToken returns null exactly when the marker is null
\* or undefined or the sort is empty, and a non-empty token string otherwise
C2_NoTokenIffAbsentOrEmpty ==
  pc = "issued" =>
    IF cursorData \in {Null, Undefined} \/ sort.el = <<>>
      THEN token = Null
      ELSE token.t = "str" /\ token.s # <<>>

\* a token was made for a marker with no property and a non-empty sort
C2_Witness ==
  /\ pc = "issued"
  /\ cursorData = Obj(<<>>)
  /\ sort.el # <<>>
  /\ token.t = "str"

\* the JSON document a token string holds, a SyntaxError result when it holds none
DocumentOf(tok) == JSONparse(Utf8ToString(FromBase64(tok.s)))

\* the member of a document, undefined when the document is no object
Member(doc, lit) == IF doc.t = "obj" THEN Get(doc, Chars(lit)) ELSE Undefined

\* a JavaScript object: an object or an array, and not null
IsObject(v) == v.t \in {"obj", "arr"}

ParseCalled == pc \in {"parsed", "reparsed"}

\* the token is a non-empty string
Present(tok) == tok.t = "str" /\ tok.s # <<>>

InvalidCursor == Throw("BadRequestError", InvalidCursorMessage)

C4_ThreeOutcomes ==
  ParseCalled =>
    /\ token \in {Null, Undefined} => parsed = Return(Null)
    /\ \/ parsed = Return(Null) /\ ~Present(token)
       \/ /\ Present(token)
          /\ parsed.kind = "return"
          /\ parsed.v.t = "obj"
          /\ IsObject(Member(parsed.v, "data"))
          /\ IsArray(Member(parsed.v, "sort"))
       \/ Present(token) /\ parsed = InvalidCursor

\* a TypeError of the try block reached the caller as the BadRequestError
C4_Witness ==
  /\ pc = "parsed"
  /\ Present(token)
  /\ ParseTry(token) = Throw("TypeError", "Cannot read properties of null")
  /\ parsed = InvalidCursor

\* C5 as stated: no character of an issued token is '+', '/' or '=', and the
\* token decodes to the bytes of the serialized payload
C5_UrlSafeToken ==
  (pc = "issued" /\ token.t = "str") =>
    /\ \A i \in 1..Len(token.s) : token.s[i] \notin {43, 47, 61}
    /\ FromBase64(token.s) =
         Utf8Bytes(JSONstringify(Obj(<<P("data", cursorData), P("sort", sort)>>)))

\* a direction-tagged value { d: v }
IsTagged(v) == v.t = "obj" /\ Len(v.kv) = 1

\* the comparison the claims name for a tagged value
Comparison(tagged) == IF tagged.kv[1].k = Chars("desc") THEN "lt" ELSE "gt"

\* C6 as stated: for a sort [f] and a marker entry { d: v } for f, the
\* where clause is { f: { lt: v } } when d is "desc" and { f: { gt: v } }
\* otherwise
C6_SingleFieldPredicate ==
  (/\ pc = "where"
   /\ Len(sort.el) = 1
   /\ cursorData.t = "obj"
   /\ IsTagged(Get(cursorData, sort.el[1].s))) =>
    LET f == sort.el[1].s
        e == Get(cursorData, f)
    IN  where = Return(Obj(<<[k |-> f, v |-> Obj(<<P(Comparison(e), e.kv[1].v)>>)]>>))

\* C7 as stated: for a sort of two or more fields, the first two p and s
\* distinct, and marker entries { d: P } and { d2: S }, the where clause is
\* { OR: [ { p: { cmp: P } }, { p: P, s: { cmp: S } } ] }, cmp from d alone,
\* whatever the further fields and their entries
C7_CompositeTieBreak ==
  (/\ pc = "where"
   /\ Len(sort.el) >= 2
   /\ sort.el[1] # sort.el[2]
   /\ cursorData.t = "obj"
   /\ IsTagged(Get(cursorData, sort.el[1].s))
   /\ IsTagged(Get(cursorData, sort.el[2].s))) =>
    LET p == sort.el[1].s
        s == sort.el[2].s
        ep == Get(cursorData, p)
        es == Get(cursorData, s)
        cmp == Comparison(ep)
    IN  where = Return(Obj(<<P("OR", Arr(<<
          Obj(<<[k |-> p, v |-> Obj(<<P(cmp, ep.kv[1].v)>>)]>>),
          Obj(ObjectLiteral(<<[k |-> p, v |-> ep.kv[1].v],
                              [k |-> s, v |-> Obj(<<P(cmp, es.kv[1].v)>>)]>>))>>))>>))

\* C8: with an empty sort buildCursorWhere returns the empty where clause,
\* whatever the marker
C8_EmptySort ==
  /\ (pc = "where" /\ sort.el = <<>>) => where = Return(Obj(<<>>))
  /\ (pc = "filtered" /\ Member(parsed.v, "sort").el = <<>>) =>
       where = Return(Obj(<<>>))

\* buildCursorWhere was called with a null marker and an empty sort
C8_Witness ==
  /\ pc = "where"
  /\ sort.el = <<>>
  /\ cursorData = Null
  /\ where = Return(Obj(<<>>))

\* C9: orderByToSort returns as many names as orderBy has entries, the i-th
\* the key of the i-th entry, repeated keys kept
C9_SortExtraction ==
  pc = "sorted" =>
    /\ Len(sort.el) = Len(orderBy.el)
    /\ \A i \in 1..Len(orderBy.el) : sort.el[i] = StrOf(orderBy.el[i].kv[1].k)

\* an orderBy that names one field twice, with two directions
C9_Witness ==
  /\ pc = "sorted"
  /\ Len(orderBy.el) >= 2
  /\ orderBy.el[1].kv[1].k = orderBy.el[2].kv[1].k
  /\ orderBy.el[1].kv[1].v # orderBy.el[2].kv[1].v
  /\ Len(sort.el) = Len(orderBy.el)

\* C10 as stated: buildCursorWhere of a pair that parseContinuationToken
\* returned for a client's token raises no error
C10_DecodeThenBuildNeverFaults ==
  (pc = "filtered" /\ sort = Undefined) => where.kind = "return"

====
